---- MODULE Spec2Model ----
(***************************************************************************)
(* Realtime session engine of LiveSession.tsx (third revision of the       *)
(* component, lines 932-1747): connection lifecycle, capture pump,         *)
(* playback scheduling, transcript reconstruction.                         *)
(*                                                                         *)
(* One action per callback or continuation.  A handler that awaits is cut  *)
(* at the await: the part before it is one action, the continuation        *)
(* another, and any other callback may run in between.                     *)
(***************************************************************************)
EXTENDS Integers, Sequences, FiniteSets, TLC

\* ---------------------------------------------------------------- bounds
MaxMsgs == 4        \* inbound transport messages per behaviour
MaxPlayMsgs == 2    \* the same, where the clock runs
MaxLifeMsgs == 1    \* the same, where sessions are opened and closed
MaxFields == 1      \* fields one message carries besides its audio part
MaxTime == 1        \* last reading of the audio transport clock
MaxDur == 2         \* longest decoded audio buffer, in clock units
MaxSessions == 2    \* calls of ai.live.connect per behaviour
MaxFrames == 1      \* video frames being encoded at the same time
MaxCalls == 2       \* function calls in one tool-call batch
MaxToolMsgs == 1    \* inbound messages per behaviour that carry tool calls
MaxShortMsgs == 2   \* inbound messages per behaviour, short behaviours
MaxMs == 1          \* last reading of Date.now()

\* ------------------------------------------------------ program constants
Marker == 0         \* the ' ...' appended to an interrupted model text

DISCONNECTED == "DISCONNECTED"
CONNECTING == "CONNECTING"
CONNECTED == "CONNECTED"
ERROR == "ERROR"
ConnectionState == {DISCONNECTED, CONNECTING, CONNECTED, ERROR}

NoError == "null"
ConnectionErrorMsg == "Connection error occurred."
InitErrorMsg == "Failed to connect"
MediaErrorMsg == "Camera/Mic access denied."

Sessions == 1..MaxSessions

\* The one declared tool, and what a FunctionCall can carry: args is
\* optional in the message type.
SetEmotion == "set_emotion"
NoArgs == "undefined"
ToolNames == {SetEmotion, "other"}
ToolArgs == {NoArgs, "joy", "anger", "bogus"}
\* The enum of the emotion parameter in the declaration of the tool.
EmotionEnum ==
    {"normal", "anger", "annoyed", "disgust", "fear", "foodie", "guilt",
     "joy", "loving", "playful", "sadness", "shame"}
NormalEmotion == "normal"

VARIABLES
    \* React state of the component
    connectionState, errorMsg, mediaStream, chatHistory,
    isMicOn, isVideoOn, currentEmotion,
    \* refs
    nextStartTimeRef, sessionPromiseRef, sourcesRef,
    currentInputRef, currentOutputRef,
    frameIntervalRef, scriptProcessorRef,
    \* environment: React, the event loop, the transport, the audio context
    mounted,        \* the component is mounted
    updateQueue,    \* setChatHistory updaters React has not run yet
    connectPc,      \* connectToGemini calls suspended at await ctx.resume()
    captured,       \* isMicOn, isVideoOn as each session's closures see them
    sess,           \* status of every transport session
    closeReq,       \* sessions on which session.close() was requested
    liveTimers,     \* sessions whose setInterval timer is running
    liveProcessors, \* sessions whose ScriptProcessor is connected
    suspended,      \* onmessage calls suspended at await decodeAudioData
    pendingFrames,  \* toBlob/blobToBase64 continuations not yet run
    clock,          \* ctx.currentTime
    \* history
    arrived,        \* every inbound message, in arrival order
    started,        \* every source.start call, in call order
    stopped,        \* units on which source.stop() was called
    sends,          \* session.sendRealtimeInput calls
    toolSends,      \* session.sendToolResponse calls, in call order
    lastOp          \* the callback that ran last

vars == <<connectionState, errorMsg, mediaStream, chatHistory,
          isMicOn, isVideoOn,
          nextStartTimeRef, sessionPromiseRef, sourcesRef,
          currentInputRef, currentOutputRef, frameIntervalRef,
          scriptProcessorRef, mounted, updateQueue, connectPc, captured,
          sess,
          closeReq, liveTimers, liveProcessors, suspended, pendingFrames,
          clock, arrived, started, stopped, sends, lastOp,
          currentEmotion, toolSends>>

\* ------------------------------------------------------------- helpers
Max(a, b) == IF a >= b THEN a ELSE b

\* LiveServerMessage, the fields onmessage reads.  audio = 0: no inline
\* audio part; otherwise the duration of the decoded buffer.
B2N(b) == IF b THEN 1 ELSE 0

Fields(m) ==
    B2N(m.inText) + B2N(m.outText) + B2N(m.turnComplete)
        + B2N(m.interrupted)

\* message.toolCall.functionCalls: no batch, or up to MaxCalls calls with
\* distinct ids.
FunctionCalls == [id : 1..MaxCalls, name : ToolNames, args : ToolArgs]

ToolCalls ==
    {<<>>} \cup UNION {
        {b \in [1..k -> FunctionCalls] :
            \A i, j \in 1..k : i # j => b[i].id # b[j].id} :
        k \in 1..MaxCalls}

Messages ==
    {m \in [audio : 0..MaxDur, inText : BOOLEAN, outText : BOOLEAN,
            turnComplete : BOOLEAN, interrupted : BOOLEAN,
            tool : ToolCalls, malformed : BOOLEAN] :
        /\ Fields(m) <= MaxFields
        /\ m.audio > 0 \/ Fields(m) > 0 \/ m.tool # <<>>
        /\ m.malformed => m.audio > 0}

\* Messages without and with a tool-call batch, their audio part well
\* formed.  malformed: the inline data of the audio part does not decode.
PlainMessages == {m \in Messages : m.tool = <<>> /\ ~m.malformed}

ToolMessages == {m \in Messages : m.tool # <<>> /\ ~m.malformed}

\* The mutable cells one onmessage call touches, as one record.
Refs ==
    [sources |-> sourcesRef, nst |-> nextStartTimeRef,
     inp |-> currentInputRef, out |-> currentOutputRef,
     q |-> updateQueue, started |-> started, stopped |-> stopped]

SetRefs(r) ==
    /\ sourcesRef' = r.sources
    /\ nextStartTimeRef' = r.nst
    /\ currentInputRef' = r.inp
    /\ currentOutputRef' = r.out
    /\ updateQueue' = r.q
    /\ started' = r.started
    /\ stopped' = r.stopped
\* ------------------------------------------------- transcript and playback
\* A setChatHistory(prev => [...prev, message]) call waiting in React's
\* update queue.  text is what the closure captured in a const; lazy says
\* the closure reads currentOutputRef.current itself, when React runs it.
\* src, by and at are history: the buffer at the time of the call, the
\* trigger, and the arrival index of the message being handled.
Updater(role, text, suffix, lazy, src, by, at) ==
    [role |-> role, text |-> text, suffix |-> suffix, lazy |-> lazy,
     src |-> src, by |-> by, at |-> at]

\* What reading a field gives that the object literal does not set.
Undefined == "undefined"

\* The ChatMessage an updater produces when React runs it with the output
\* buffer reading out and Date.now() reading ms.  The id is ms followed by
\* suffix.  The literal sets id, role, text and timestamp and no
\* interrupted field.
RunUpdater(u, out, ms) ==
    [role |-> u.role,
     text |-> IF u.lazy THEN Append(out, Marker) ELSE u.text,
     ms |-> ms, suffix |-> u.suffix, interrupted |-> Undefined,
     src |-> u.src, by |-> u.by, at |-> u.at]

\* Date.now() does not go back.
LastMs(log) == IF log = <<>> THEN 0 ELSE log[Len(log)].ms

\* A mark in the started history: playback was cut here.
Cut == [id |-> 0, start |-> 0, dur |-> 0, arr |-> 0, at |-> 0]

CutHistory(h) ==
    IF h = <<>> \/ h[Len(h)] = Cut THEN h ELSE Append(h, Cut)

\* services/audioUtils.decodeAudioData: the AudioBuffer of a payload, here
\* its duration.  The promise it returns settles at some later turn of the
\* event loop.
decodeAudioData(payload) == payload

\* Line 1204 without Math.max: the cursor is set to currentTime.
AudioSyncNoMax(r, t) == [r EXCEPT !.nst = t]

\* onmessage up to the await: nextStartTimeRef = max(cursor, currentTime).
AudioSync(r, t) == [r EXCEPT !.nst = Max(r.nst, t)]

\* The user flush at audio start.
FlushUserAtAudio(r, n) ==
    IF r.inp # <<>>
    THEN [r EXCEPT
            !.q = Append(@, Updater("user", r.inp, "-user", FALSE,
                                    r.inp, "audio-start", n)),
            !.inp = <<>>]
    ELSE r

\* The continuation without the user flush of lines 1217-1227.
AudioResumeNoFlush(r, n, d, arr, t) ==
    [r EXCEPT
        !.started = Append(@, [id |-> n, start |-> r.nst, dur |-> d,
                               arr |-> arr, at |-> t]),
        !.nst = r.nst + d,
        !.sources = @ \cup {n}]

\* onmessage after the await: source.start(cursor), advance the cursor,
\* register the source, then flush the user transcript.  The message
\* arrived when the clock read arr and the clock now reads t.
AudioResume(r, n, d, arr, t) ==
    FlushUserAtAudio(
        [r EXCEPT
            !.started = Append(@, [id |-> n, start |-> r.nst, dur |-> d,
                                   arr |-> arr, at |-> t]),
            !.nst = r.nst + d,
            !.sources = @ \cup {n}],
        n)

InputTranscription(r, n, m) ==
    IF m.inText THEN [r EXCEPT !.inp = Append(@, n)] ELSE r

OutputTranscription(r, n, m) ==
    IF m.outText THEN [r EXCEPT !.out = Append(@, n)] ELSE r

FlushModelAtTurn(r, n) ==
    IF r.out # <<>>
    THEN [r EXCEPT
            !.q = Append(@, Updater("model", r.out, "-model", FALSE,
                                    r.out, "turn-complete", n)),
            !.out = <<>>]
    ELSE r

FlushUserAtTurn(r, n) ==
    IF r.inp # <<>>
    THEN [r EXCEPT
            !.q = Append(@, Updater("user", r.inp, "-user", FALSE,
                                    r.inp, "turn-complete", n)),
            !.inp = <<>>]
    ELSE r

\* The turn-complete branch with its two flushes exchanged.
TurnCompleteUserFirst(r, n, m) ==
    IF m.turnComplete THEN FlushModelAtTurn(FlushUserAtTurn(r, n), n) ELSE r

TurnComplete(r, n, m) ==
    IF m.turnComplete THEN FlushUserAtTurn(FlushModelAtTurn(r, n), n) ELSE r

\* InterruptPlayback without the reset of the cursor.
InterruptPlaybackKeepsCursor(r) ==
    [r EXCEPT !.stopped = @ \cup r.sources,
              !.sources = {},
              !.started = CutHistory(@)]

\* The playback part of the interrupted branch: stop and forget every
\* source, reset the cursor.
InterruptPlayback(r) ==
    [r EXCEPT !.stopped = @ \cup r.sources,
              !.sources = {},
              !.nst = 0,
              !.started = CutHistory(@)]

\* The transcript part of the interrupted branch.  The message text is
\* currentOutputRef.current + ' ...' inside the updater closure, so it is
\* read when React runs the updater: at once when React computes the state
\* eagerly (eager), otherwise at the next render, after the handler has
\* cleared the buffer.
FlushInterrupted(r, n, eager) ==
    IF r.out # <<>>
    THEN [r EXCEPT
            !.q = Append(@, Updater("model",
                                    IF eager THEN Append(r.out, Marker)
                                             ELSE <<>>,
                                    "-model-interrupted", ~eager,
                                    r.out, "interrupted", n)),
            !.out = <<>>]
    ELSE r

HandleInterrupted(r, n, eager) ==
    FlushInterrupted(InterruptPlayback(r), n, eager)

Interrupted(r, n, m, eager) ==
    IF m.interrupted THEN HandleInterrupted(r, n, eager) ELSE r

\* onmessage from the transcription handling to its end.
AfterAudio(r, n, m, eager) ==
    Interrupted(
        TurnComplete(
            OutputTranscription(InputTranscription(r, n, m), n, m), n, m),
        n, m, eager)
\* ------------------------------------------------------------ tool calls
\* The for loop over message.toolCall.functionCalls from call i on.  acc
\* holds the responses pushed so far, the emotion set so far, and whether
\* the loop has thrown: args.emotion of a set_emotion call without args is
\* a TypeError, and nothing in onmessage catches it.
RECURSIVE Dispatch(_, _, _)
Dispatch(calls, i, acc) ==
    IF i > Len(calls) \/ acc.threw
    THEN acc
    ELSE LET fc == calls[i]
         IN  IF fc.name # SetEmotion
             THEN Dispatch(calls, i + 1, acc)
             ELSE IF fc.args = NoArgs
             THEN [acc EXCEPT !.threw = TRUE]
             ELSE Dispatch(calls, i + 1,
                      [acc EXCEPT
                          !.emotion = fc.args,
                          !.responses = Append(@,
                              [id |-> fc.id, name |-> fc.name,
                               result |-> "success"])])

\* The tool-call branch of onmessage, entered with the emotion shown.
ToolCallBranch(calls, emotion) ==
    Dispatch(calls, 1,
             [responses |-> <<>>, emotion |-> emotion, threw |-> FALSE])

\* The messages whose audio or transcript effects are in place in r.
Seen(r) ==
    {r.inp[i] : i \in 1..Len(r.inp)}
        \cup {r.out[i] : i \in 1..Len(r.out)}
        \cup {r.started[i].id : i \in 1..Len(r.started)}
        \cup {r.q[i].at : i \in 1..Len(r.q)}

\* if (responses.length > 0) sessionPromise.then(session =>
\* session.sendToolResponse(...)).  The branch ran when the effects in
\* place were atDispatch; the then-callback is a microtask and runs when the
\* handler returns or awaits, with atSend in place.
SendToolResponse(log, n, responses, atDispatch, atSend) ==
    IF responses # <<>>
    THEN Append(log, [msg |-> n, responses |-> responses,
                      atDispatch |-> atDispatch, atSend |-> atSend])
    ELSE log

\* ------------------------------------------------------------------ Init
Init ==
    /\ connectionState = DISCONNECTED
    /\ errorMsg = NoError
    /\ mediaStream = "pending"
    /\ chatHistory = <<>>
    /\ isMicOn = TRUE
    /\ isVideoOn = TRUE
    /\ nextStartTimeRef = 0
    /\ sessionPromiseRef = 0
    /\ sourcesRef = {}
    /\ currentInputRef = <<>>
    /\ currentOutputRef = <<>>
    /\ frameIntervalRef = 0
    /\ scriptProcessorRef = 0
    /\ mounted = TRUE
    /\ updateQueue = <<>>
    /\ connectPc = {}
    /\ captured = [s \in Sessions |->
                        [mic |-> TRUE, video |-> TRUE, el |-> TRUE]]
    /\ sess = [s \in Sessions |-> "none"]
    /\ closeReq = {}
    /\ liveTimers = {}
    /\ liveProcessors = {}
    /\ suspended = {}
    /\ pendingFrames = {}
    /\ clock = 0
    /\ arrived = <<>>
    /\ started = <<>>
    /\ stopped = {}
    /\ sends = {}
    /\ lastOp = "init"
    /\ currentEmotion = NormalEmotion
    /\ toolSends = <<>>

\* React drops a state update of a component that is no longer mounted.
SetConnectionState(v) == IF mounted THEN v ELSE connectionState

SetErrorMsg(v) == IF mounted THEN v ELSE errorMsg

\* setCurrentEmotion as a call that sets nothing.
SetCurrentEmotionIgnored(v) == currentEmotion

SetCurrentEmotion(v) == IF mounted THEN v ELSE currentEmotion

UnchangedToggles == UNCHANGED <<isMicOn, isVideoOn>>

UnchangedRefs ==
    UNCHANGED <<nextStartTimeRef, sourcesRef, currentInputRef,
                currentOutputRef, updateQueue, started, stopped>>

UnchangedPump ==
    UNCHANGED <<frameIntervalRef, scriptProcessorRef, liveTimers,
                liveProcessors, pendingFrames, sends>>

UnchangedSession ==
    UNCHANGED <<sessionPromiseRef, connectPc, captured, sess, closeReq>>

UnchangedTools == UNCHANGED <<currentEmotion, toolSends>>

\* ------------------------------------------------------- stopEverything
\* stopEverything committing the buffers it clears.
StopRefsCommit(r) ==
    [FlushUserAtTurn(FlushModelAtTurn(r, 0), 0) EXCEPT
        !.stopped = @ \cup r.sources,
        !.sources = {},
        !.nst = 0,
        !.started = CutHistory(@)]

\* The playback and transcript part of stopEverything.
StopRefs(r) ==
    [r EXCEPT !.stopped = @ \cup r.sources,
              !.sources = {},
              !.nst = 0,
              !.started = CutHistory(@),
              !.inp = <<>>,
              !.out = <<>>]

\* sessionPromiseRef.current?.then(session => session.close())
StopCloseReq(ref, req) == IF ref # 0 THEN req \cup {ref} ELSE req

\* stopEverything without its last statement.
StopLeavesConnectionState == connectionState

\* setConnectionState at the end of stopEverything.
StopConnectionState == SetConnectionState(DISCONNECTED)

\* Continuations that were scheduled before this stop.
MarkStale(frames) == {[f EXCEPT !.stale = TRUE] : f \in frames}

stopEverything ==
    /\ frameIntervalRef' = 0
    /\ liveTimers' = liveTimers \ {frameIntervalRef}
    /\ scriptProcessorRef' = 0
    /\ liveProcessors' = liveProcessors \ {scriptProcessorRef}
    /\ SetRefs(StopRefs(Refs))
    /\ closeReq' = StopCloseReq(sessionPromiseRef, closeReq)
    /\ sessionPromiseRef' = 0
    /\ connectionState' = StopConnectionState
    /\ pendingFrames' = MarkStale(pendingFrames)

StopOps == {"stop", "stop2", "error"}

AfterStop == IF lastOp \in StopOps THEN "stop2" ELSE "stop"
\* ------------------------------------------------------------ lifecycle
NumSessions == Cardinality({s \in Sessions : sess[s] # "none"})

\* getUserMedia settles.
MediaReady ==
    /\ mediaStream = "pending"
    /\ mediaStream' = IF mounted THEN "ready" ELSE mediaStream
    /\ lastOp' = "other"
    /\ UnchangedTools
    /\ UNCHANGED <<connectionState, errorMsg, chatHistory, mounted, clock,
                   arrived, suspended>>
    /\ UnchangedToggles /\ UnchangedRefs /\ UnchangedPump /\ UnchangedSession

MediaDenied ==
    /\ mediaStream = "pending"
    /\ mediaStream' = "denied"
    /\ errorMsg' = SetErrorMsg(MediaErrorMsg)
    /\ lastOp' = "other"
    /\ UnchangedTools
    /\ UNCHANGED <<connectionState, chatHistory, mounted, clock, arrived,
                   suspended>>
    /\ UnchangedToggles /\ UnchangedRefs /\ UnchangedPump /\ UnchangedSession

\* connectToGemini from after the await to its end, with the closure
\* values cap (videoRef.current is read here: el): ai.live.connect returns the session promise, or throws and
\* the catch block runs.
Connect(cap, throws) ==
    IF throws
    THEN /\ errorMsg' = SetErrorMsg(InitErrorMsg)
         /\ connectionState' = SetConnectionState(ERROR)
         /\ UNCHANGED <<sessionPromiseRef, captured, sess>>
    ELSE /\ NumSessions < MaxSessions
         /\ LET s == NumSessions + 1
            IN  /\ sess' = [sess EXCEPT ![s] = "opening"]
                /\ captured' = [captured EXCEPT ![s] =
                        [mic |-> cap.mic, video |-> cap.video,
                         el |-> mounted]]
                /\ sessionPromiseRef' = s

\* The closure values of one connectToGemini call.
Closure == [mic |-> isMicOn, video |-> isVideoOn]

\* The guard of connectToGemini taken as always passed.
HasMediaAlways == TRUE

\* if (!mediaStream) return, negated.
HasMedia == mediaStream = "ready"

\* toggleConnection when the button reads Start: connectToGemini.
Start(await, throws) ==
    /\ mounted
    /\ connectionState \notin {CONNECTED, CONNECTING}
    /\ UnchangedTools
    /\ UNCHANGED <<mediaStream, chatHistory, mounted, clock, arrived,
                   suspended, closeReq>>
    /\ UnchangedToggles /\ UnchangedRefs /\ UnchangedPump
    /\ IF ~HasMedia
       THEN /\ lastOp' = "start"
            /\ UNCHANGED <<connectionState, errorMsg, sessionPromiseRef,
                           connectPc, captured, sess>>
       ELSE IF await
       THEN /\ NumSessions + Cardinality(connectPc) < MaxSessions
            /\ lastOp' = "start"
            /\ errorMsg' = NoError
            /\ connectionState' = CONNECTING
            /\ connectPc' = connectPc \cup {Closure}
            /\ UNCHANGED <<sessionPromiseRef, captured, sess>>
       ELSE /\ UNCHANGED connectPc
            /\ IF throws
               THEN /\ lastOp' = "threw-connect"
                    /\ Connect(Closure, TRUE)
               ELSE /\ lastOp' = "start"
                    /\ errorMsg' = NoError
                    /\ connectionState' = CONNECTING
                    /\ Connect(Closure, FALSE)

\* ctx.resume() settles and connectToGemini goes on.
Resumed(cap, throws) ==
    /\ cap \in connectPc
    /\ connectPc' = connectPc \ {cap}
    /\ UnchangedTools
    /\ UNCHANGED <<mediaStream, chatHistory, mounted, clock, arrived,
                   suspended, closeReq>>
    /\ UnchangedToggles /\ UnchangedRefs /\ UnchangedPump
    /\ IF throws
       THEN /\ lastOp' = "threw-connect"
            /\ Connect(cap, TRUE)
       ELSE /\ lastOp' = "other"
            /\ UNCHANGED <<errorMsg, connectionState>>
            /\ Connect(cap, FALSE)

\* toggleConnection when the button reads End Session (the button is
\* disabled while CONNECTING).
Stop ==
    /\ mounted
    /\ connectionState = CONNECTED
    /\ stopEverything
    /\ lastOp' = AfterStop
    /\ UnchangedTools
    /\ UNCHANGED <<errorMsg, mediaStream, chatHistory, mounted, connectPc,
                   captured, sess, suspended, clock, arrived, sends>>
    /\ UnchangedToggles

\* The cleanup of the mount effect.
Unmount ==
    /\ mounted
    /\ stopEverything
    /\ mounted' = FALSE
    /\ lastOp' = AfterStop
    /\ UnchangedTools
    /\ UNCHANGED <<errorMsg, mediaStream, chatHistory, connectPc, captured,
                   sess, suspended, clock, arrived, sends>>
    /\ UnchangedToggles

onopen(s) ==
    /\ sess[s] = "opening"
    /\ sess' = [sess EXCEPT ![s] = "open"]
    /\ connectionState' = SetConnectionState(CONNECTED)
    /\ scriptProcessorRef' = s
    /\ liveProcessors' = liveProcessors \cup {s}
    /\ IF captured[s].el
       THEN /\ frameIntervalRef' = s
            /\ liveTimers' = liveTimers \cup {s}
       ELSE UNCHANGED <<frameIntervalRef, liveTimers>>
    /\ lastOp' = "other"
    /\ UnchangedTools
    /\ UNCHANGED <<errorMsg, mediaStream, chatHistory, mounted, clock,
                   arrived, suspended, sessionPromiseRef, connectPc,
                   captured, closeReq, pendingFrames, sends>>
    /\ UnchangedToggles /\ UnchangedRefs

\* The promise ai.live.connect returned rejects.  connectToGemini does not
\* await it and no rejection handler is attached to it: the then-callbacks
\* of stopEverything and of the capture pump never run, and nothing else
\* happens.
connectRejected(s) ==
    /\ sess[s] = "opening"
    /\ sess' = [sess EXCEPT ![s] = "rejected"]
    /\ lastOp' = "rejected"
    /\ UnchangedTools
    /\ UNCHANGED <<connectionState, errorMsg, mediaStream, chatHistory,
                   mounted, clock, arrived, suspended, sessionPromiseRef,
                   connectPc, captured, closeReq>>
    /\ UnchangedToggles /\ UnchangedRefs /\ UnchangedPump

\* The transport closes: on session.close(), or from the remote side.
onclose(s) ==
    /\ sess[s] \in {"open", "errored"}
    /\ sess' = [sess EXCEPT ![s] = "closed"]
    /\ connectionState' = SetConnectionState(DISCONNECTED)
    /\ lastOp' = "other"
    /\ UnchangedTools
    /\ UNCHANGED <<errorMsg, mediaStream, chatHistory, mounted, clock,
                   arrived, suspended, sessionPromiseRef, connectPc,
                   captured, closeReq>>
    /\ UnchangedToggles /\ UnchangedRefs /\ UnchangedPump

\* setErrorMsg, setConnectionState(ERROR), then stopEverything, whose last
\* statement is setConnectionState(DISCONNECTED): the later update wins.
onerror(s) ==
    /\ sess[s] \in {"opening", "open"}
    /\ sess' = [sess EXCEPT ![s] = "errored"]
    /\ errorMsg' = SetErrorMsg(ConnectionErrorMsg)
    /\ stopEverything
    /\ lastOp' = "error"
    /\ UnchangedTools
    /\ UNCHANGED <<mediaStream, chatHistory, mounted, connectPc, captured,
                   suspended, clock, arrived, sends>>
    /\ UnchangedToggles
\* ------------------------------------------------------------- onmessage
UnchangedLifecycle ==
    UNCHANGED <<connectionState, errorMsg, mediaStream, chatHistory,
                mounted, clock>>

\* What the handler of m has done when it ends.
HandlerOp(m) ==
    IF m.interrupted THEN "interrupted"
    ELSE IF m.turnComplete THEN "turn-complete"
    ELSE "other"

\* A message arrives on session s.  The tool-call branch runs first; if it
\* throws, the handler ends there.  Otherwise, with an audio part the
\* handler runs to the await and is suspended, or ends at decode when the
\* part is malformed and decode throws; without one it runs to its end.
onmessage(s, m, eager) ==
    /\ sess[s] = "open"
    /\ Len(arrived) < MaxMsgs
    /\ arrived' = Append(arrived, m)
    /\ LET n == Len(arrived) + 1
           tc == ToolCallBranch(m.tool, currentEmotion)
           r == IF m.audio > 0
                THEN AudioSync(Refs, clock)
                ELSE AfterAudio(Refs, n, m, eager)
       IN  /\ currentEmotion' = SetCurrentEmotion(tc.emotion)
           /\ IF tc.threw
              THEN /\ UnchangedRefs
                   /\ UNCHANGED <<suspended, toolSends>>
                   /\ lastOp' = "threw"
              ELSE \/ /\ m.malformed
                      /\ UnchangedRefs
                      /\ toolSends' = SendToolResponse(toolSends, n,
                                tc.responses, Seen(Refs), Seen(Refs))
                      /\ UNCHANGED suspended
                      /\ lastOp' = "threw-decode"
                   \/ /\ SetRefs(r)
                      /\ toolSends' = SendToolResponse(toolSends, n,
                                tc.responses, Seen(Refs), Seen(r))
                      /\ suspended' =
                             IF m.audio > 0
                             THEN suspended \cup
                                     {[id |-> n, msg |-> m, arr |-> clock]}
                             ELSE suspended
                      /\ lastOp' = IF m.audio = 0
                                   THEN HandlerOp(m) ELSE "other"
    /\ UnchangedLifecycle /\ UnchangedToggles /\ UnchangedPump
    /\ UnchangedSession

\* decodeAudioData settles for the suspended handler h, which runs to its
\* end; for a malformed part the promise rejects and the handler ends at
\* the await.
resume(h, eager) ==
    /\ h \in suspended
    /\ suspended' = suspended \ {h}
    /\ IF h.msg.malformed
       THEN /\ UnchangedRefs
            /\ lastOp' = "threw-decode"
       ELSE /\ SetRefs(AfterAudio(
                       AudioResume(Refs, h.id,
                                   decodeAudioData(h.msg.audio),
                                   h.arr, clock),
                       h.id, h.msg, eager))
            /\ lastOp' = HandlerOp(h.msg)
    /\ UnchangedTools
    /\ UNCHANGED arrived
    /\ UnchangedLifecycle /\ UnchangedToggles /\ UnchangedPump
    /\ UnchangedSession

\* The scheduled end of a started unit.
UnitEnd(u) ==
    LET i == CHOOSE i \in 1..Len(started) : started[i].id = u
    IN  started[i].start + started[i].dur

\* source.onended after the unit has played to its end.
onended(u) ==
    /\ u \in sourcesRef
    /\ clock >= UnitEnd(u)
    /\ sourcesRef' = sourcesRef \ {u}
    /\ lastOp' = "other"
    /\ UnchangedTools
    /\ UNCHANGED <<nextStartTimeRef, currentInputRef, currentOutputRef,
                   updateQueue, started, stopped, arrived, suspended>>
    /\ UnchangedLifecycle /\ UnchangedToggles /\ UnchangedPump
    /\ UnchangedSession

\* A render in which the updaters run on an empty array instead of prev.
RenderDropsLog ==
    /\ mounted
    /\ updateQueue # <<>>
    /\ \E ms \in LastMs(chatHistory)..MaxMs :
          chatHistory' =
              [i \in 1..Len(updateQueue) |->
                  RunUpdater(updateQueue[i], currentOutputRef, ms)]
    /\ updateQueue' = <<>>
    /\ lastOp' = "other"
    /\ UnchangedTools
    /\ UNCHANGED <<connectionState, errorMsg, mediaStream, mounted, clock,
                   nextStartTimeRef, sourcesRef, currentInputRef,
                   currentOutputRef, started, stopped, arrived, suspended>>
    /\ UnchangedToggles /\ UnchangedPump /\ UnchangedSession

\* React renders: the queued updaters run in order.
Render ==
    /\ mounted
    /\ updateQueue # <<>>
    /\ \E ms \in LastMs(chatHistory)..MaxMs :
          chatHistory' = chatHistory \o
              [i \in 1..Len(updateQueue) |->
                  RunUpdater(updateQueue[i], currentOutputRef, ms)]
    /\ updateQueue' = <<>>
    /\ lastOp' = "other"
    /\ UnchangedTools
    /\ UNCHANGED <<connectionState, errorMsg, mediaStream, mounted, clock,
                   nextStartTimeRef, sourcesRef, currentInputRef,
                   currentOutputRef, started, stopped, arrived, suspended>>
    /\ UnchangedToggles /\ UnchangedPump /\ UnchangedSession

Tick ==
    /\ clock < MaxTime
    /\ clock' = clock + 1
    /\ lastOp' = "other"
    /\ UnchangedTools
    /\ UNCHANGED <<connectionState, errorMsg, mediaStream, chatHistory,
                   mounted, arrived, suspended>>
    /\ UnchangedToggles /\ UnchangedRefs /\ UnchangedPump /\ UnchangedSession

\* ---------------------------------------------------------- capture pump
UnchangedButPump ==
    /\ UNCHANGED <<arrived, suspended>>
    /\ UnchangedLifecycle /\ UnchangedToggles /\ UnchangedRefs
    /\ UnchangedSession

\* processor.onaudioprocess of session s: isMicOn is the value its closure
\* captured.
onaudioprocess(s) ==
    /\ s \in liveProcessors
    /\ sends' = IF captured[s].mic
                THEN sends \cup {[sess |-> s, kind |-> "audio",
                                  late |-> FALSE, off |-> ~isMicOn]}
                ELSE sends
    /\ lastOp' = "other"
    /\ UnchangedTools
    /\ UNCHANGED <<frameIntervalRef, scriptProcessorRef, liveTimers,
                   liveProcessors, pendingFrames>>
    /\ UnchangedButPump

\* The setInterval callback of session s: canvasEl.toBlob is started when
\* video is on and the element has a frame.
FrameTick(s, hasFrame) ==
    /\ s \in liveTimers
    /\ pendingFrames' =
           IF captured[s].video /\ hasFrame
           THEN pendingFrames \cup {[sess |-> s, stale |-> FALSE,
                                     off |-> ~isVideoOn]}
           ELSE pendingFrames
    /\ Cardinality(pendingFrames') <= MaxFrames
    /\ lastOp' = "other"
    /\ UnchangedTools
    /\ UNCHANGED <<frameIntervalRef, scriptProcessorRef, liveTimers,
                   liveProcessors, sends>>
    /\ UnchangedButPump

\* toBlob and blobToBase64 have settled: the frame is sent.
FrameEncoded(f) ==
    /\ f \in pendingFrames
    /\ pendingFrames' = pendingFrames \ {f}
    /\ sends' = sends \cup {[sess |-> f.sess, kind |-> "image",
                             late |-> f.stale, off |-> f.off]}
    /\ lastOp' = "other"
    /\ UnchangedTools
    /\ UNCHANGED <<frameIntervalRef, scriptProcessorRef, liveTimers,
                   liveProcessors>>
    /\ UnchangedButPump

ToggleMic ==
    /\ mounted
    /\ isMicOn' = ~isMicOn
    /\ lastOp' = "other"
    /\ UnchangedTools
    /\ UNCHANGED <<isVideoOn, arrived, suspended>>
    /\ UnchangedLifecycle /\ UnchangedRefs /\ UnchangedPump
    /\ UnchangedSession

ToggleVideo ==
    /\ mounted
    /\ isVideoOn' = ~isVideoOn
    /\ lastOp' = "other"
    /\ UnchangedTools
    /\ UNCHANGED <<isMicOn, arrived, suspended>>
    /\ UnchangedLifecycle /\ UnchangedRefs /\ UnchangedPump
    /\ UnchangedSession

\* ------------------------------------------------------------------ Next
Next ==
    \/ MediaReady
    \/ MediaDenied
    \/ \E await, throws \in BOOLEAN : Start(await, throws)
    \/ \E cap \in connectPc, throws \in BOOLEAN : Resumed(cap, throws)
    \/ Stop
    \/ Unmount
    \/ \E s \in Sessions : onopen(s)
    \/ \E s \in Sessions : connectRejected(s)
    \/ \E s \in Sessions : onclose(s)
    \/ \E s \in Sessions : onerror(s)
    \/ \E s \in Sessions, m \in Messages, eager \in BOOLEAN :
          onmessage(s, m, eager)
    \/ \E h \in suspended, eager \in BOOLEAN : resume(h, eager)
    \/ \E u \in sourcesRef : onended(u)
    \/ Render
    \/ Tick
    \/ \E s \in Sessions : onaudioprocess(s)
    \/ \E s \in Sessions, hasFrame \in BOOLEAN : FrameTick(s, hasFrame)
    \/ \E f \in pendingFrames : FrameEncoded(f)
    \/ ToggleMic
    \/ ToggleVideo

Spec == Init /\ [][Next]_vars

\* One session is opened and inbound messages are reconstructed into the
\* transcript; audio parts are all of duration 1 and the clock stands.
NextTranscript ==
    \/ MediaReady
    \/ Start(FALSE, FALSE)
    \/ \E s \in Sessions : onopen(s)
    \/ \E s \in Sessions, m \in PlainMessages, eager \in BOOLEAN :
          m.audio <= 1 /\ onmessage(s, m, eager)
    \/ \E h \in suspended, eager \in BOOLEAN : resume(h, eager)
    \/ Render

SpecTranscript == Init /\ [][NextTranscript]_vars
\* One session at a time is opened, stopped and reopened; inbound messages
\* carry audio parts and interruptions, and the clock runs.
PlaybackMessages ==
    {m \in PlainMessages : ~m.inText /\ ~m.outText /\ ~m.turnComplete}

NextPlayback ==
    \/ MediaReady
    \/ NumSessions = 0 /\ Start(FALSE, FALSE)
    \/ Stop
    \/ \E s \in Sessions : onopen(s)
    \/ \E s \in Sessions, m \in PlaybackMessages :
          Len(arrived) < MaxPlayMsgs /\ onmessage(s, m, FALSE)
    \/ \E h \in suspended : resume(h, FALSE)
    \/ \E u \in sourcesRef : onended(u)
    \/ Tick

SpecPlayback == Init /\ [][NextPlayback]_vars

\* Sessions are opened, stopped, closed by the remote side, failed and
\* reopened while the capture pump runs; inbound messages carry one
\* transcript delta or one audio part.
LifecycleMessages ==
    {m \in PlainMessages :
        m.audio <= 1 /\ ~m.turnComplete /\ ~m.interrupted}

NextLifecycle ==
    \/ MediaReady
    \/ MediaDenied
    \/ \E await, throws \in BOOLEAN : Start(await, throws)
    \/ \E cap \in connectPc, throws \in BOOLEAN : Resumed(cap, throws)
    \/ Stop
    \/ Unmount
    \/ \E s \in Sessions : onopen(s)
    \/ \E s \in Sessions : onclose(s)
    \/ \E s \in Sessions : onerror(s)
    \/ \E s \in Sessions, m \in LifecycleMessages :
          Len(arrived) < MaxLifeMsgs /\ onmessage(s, m, FALSE)
    \/ \E h \in suspended : resume(h, FALSE)
    \/ \E s \in Sessions, hasFrame \in BOOLEAN : FrameTick(s, hasFrame)
    \/ \E f \in pendingFrames : FrameEncoded(f)

SpecLifecycle == Init /\ [][NextLifecycle]_vars

\* Sessions are started, fail to open, open, are stopped and closed; no
\* message arrives and the capture pump produces nothing.
NextSession ==
    \/ MediaReady
    \/ MediaDenied
    \/ \E await, throws \in BOOLEAN : Start(await, throws)
    \/ \E cap \in connectPc, throws \in BOOLEAN : Resumed(cap, throws)
    \/ Stop
    \/ Unmount
    \/ \E s \in Sessions : onopen(s)
    \/ \E s \in Sessions : connectRejected(s)
    \/ \E s \in Sessions : onclose(s)
    \/ \E s \in Sessions : onerror(s)

SpecSession == Init /\ [][NextSession]_vars

\* One session is opened and the capture pump runs while the user toggles
\* the microphone and the camera.
NextPump ==
    \/ MediaReady
    \/ ToggleMic
    \/ ToggleVideo
    \/ NumSessions = 0 /\ Start(FALSE, FALSE)
    \/ \E s \in Sessions : onopen(s)
    \/ \E s \in Sessions : onaudioprocess(s)
    \/ \E s \in Sessions, hasFrame \in BOOLEAN : FrameTick(s, hasFrame)
    \/ \E f \in pendingFrames : FrameEncoded(f)
    \/ Stop

SpecPump == Init /\ [][NextPump]_vars

\* One session is opened and messages with a tool-call batch arrive, each
\* with at most one audio part of duration 1.
NextTools ==
    \/ MediaReady
    \/ Start(FALSE, FALSE)
    \/ \E s \in Sessions, m \in ToolMessages, eager \in BOOLEAN :
          /\ m.audio <= 1
          /\ Len(arrived) < MaxToolMsgs
          /\ onmessage(s, m, eager)
    \/ \E s \in Sessions : onopen(s)
    \/ \E h \in suspended, eager \in BOOLEAN : resume(h, eager)

SpecTools == Init /\ [][NextTools]_vars

\* Sessions are opened, stopped, failed and reopened while messages without
\* audio arrive and are committed to the log.
NextLog ==
    \/ MediaReady
    \/ Start(FALSE, FALSE)
    \/ Stop
    \/ \E s \in Sessions : onopen(s)
    \/ \E s \in Sessions : onerror(s)
    \/ \E s \in Sessions, m \in PlainMessages, eager \in BOOLEAN :
          /\ m.audio = 0
          /\ Len(arrived) < MaxMsgs
          /\ onmessage(s, m, eager)
    \/ Render

SpecLog == Init /\ [][NextLog]_vars

\* The same lifecycle with messages that carry either a tool-call batch
\* alone or no tool call.
EmotionMessages ==
    {m \in Messages :
        /\ ~m.malformed
        /\ m.audio <= 1
        /\ m.tool = <<>> \/ (m.audio = 0 /\ Fields(m) = 0)}

NextEmotion ==
    \/ MediaReady
    \/ Start(FALSE, FALSE)
    \/ Stop
    \/ \E s \in Sessions : onopen(s)
    \/ \E s \in Sessions : onerror(s)
    \/ \E s \in Sessions, m \in EmotionMessages :
          Len(arrived) < MaxShortMsgs /\ onmessage(s, m, FALSE)
    \/ \E h \in suspended : resume(h, FALSE)

SpecEmotion == Init /\ [][NextEmotion]_vars

\* One session is opened and messages arrive whose audio part may be
\* malformed.
DecodeMessages == {m \in Messages : m.tool = <<>> /\ m.audio <= 1}

NextDecode ==
    \/ MediaReady
    \/ Start(FALSE, FALSE)
    \/ \E s \in Sessions : onopen(s)
    \/ \E s \in Sessions, m \in DecodeMessages :
          Len(arrived) < MaxShortMsgs /\ onmessage(s, m, FALSE)
    \/ \E h \in suspended : resume(h, FALSE)

SpecDecode == Init /\ [][NextDecode]_vars

\* The then-callback of stopEverything runs on the opened session:
\* session.close(), and the transport closes.
closeSession(s) ==
    /\ s \in closeReq
    /\ onclose(s)

\* Sessions are started, with or without the await of ctx.resume(), opened,
\* stopped by the button or by the unmount cleanup, and closed on request.
NextClose ==
    \/ MediaReady
    \/ \E await \in BOOLEAN : Start(await, FALSE)
    \/ \E cap \in connectPc : Resumed(cap, FALSE)
    \/ Stop
    \/ Unmount
    \/ \E s \in Sessions : onopen(s)
    \/ \E s \in Sessions : closeSession(s)
    \/ ToggleMic
    \/ ToggleVideo

\* Every pending continuation runs: ctx.resume() settles, the connection
\* opens, and the callback attached to the session promise is called.
FairClose ==
    /\ WF_vars(\E cap \in connectPc : Resumed(cap, FALSE))
    /\ \A s \in Sessions : WF_vars(onopen(s)) /\ WF_vars(closeSession(s))

SpecClose == Init /\ [][NextClose]_vars /\ FairClose
\* =================================================================== claims
UserDelta ==
    [audio |-> 0, inText |-> TRUE, outText |-> FALSE,
     turnComplete |-> FALSE, interrupted |-> FALSE, tool |-> <<>>,
     malformed |-> FALSE]

ModelDelta ==
    [audio |-> 0, inText |-> FALSE, outText |-> TRUE,
     turnComplete |-> FALSE, interrupted |-> FALSE, tool |-> <<>>,
     malformed |-> FALSE]

TurnCompleteOnly ==
    [audio |-> 0, inText |-> FALSE, outText |-> FALSE,
     turnComplete |-> TRUE, interrupted |-> FALSE, tool |-> <<>>,
     malformed |-> FALSE]

AudioOnly(m) == m.audio > 0 /\ Fields(m) = 0

\* Every handler has run to its end and React has rendered.
Settled == suspended = {} /\ updateQueue = <<>>

Ascending(q) ==
    \A i, j \in 1..Len(q) : i < j => q[i] < q[j]

\* The arrivals so far are: user deltas, one audio payload, model deltas,
\* one turn-complete.
AudioStartScenario ==
    /\ Len(arrived) >= 4
    /\ \E a \in 2..(Len(arrived) - 2) :
          /\ \A i \in 1..(a - 1) : arrived[i] = UserDelta
          /\ AudioOnly(arrived[a])
          /\ \A i \in (a + 1)..(Len(arrived) - 1) : arrived[i] = ModelDelta
    /\ arrived[Len(arrived)] = TurnCompleteOnly

\* C1: user deltas, then an audio payload, then model deltas, then
\* turn-complete leave exactly the two messages [user, model] in the log,
\* the user message having been committed by the audio payload's handler,
\* whatever the interleaving of the handlers.
C1_AudioStartFlushPrecedence ==
    (AudioStartScenario /\ Settled) =>
        /\ Len(chatHistory) = 2
        /\ chatHistory[1].role = "user"
        /\ chatHistory[1].by = "audio-start"
        /\ chatHistory[2].role = "model"

\* C2: messages take effect in arrival order: the fragments in each
\* transcript buffer and the committed messages are in the order in which
\* their messages arrived.
C2_ProcessingOrderIsArrivalOrder ==
    /\ Ascending(currentInputRef)
    /\ Ascending(currentOutputRef)
    /\ \A i, j \in 1..Len(chatHistory) :
          i < j => chatHistory[i].at <= chatHistory[j].at

\* C3: two units started one after the other with no interruption or stop
\* in between, the second at a clock reading not later than the scheduled
\* end of the first, are scheduled back to back and in arrival order.
C3_GaplessPlayback ==
    \A i \in 1..(Len(started) - 1) :
        LET a == started[i]
            b == started[i + 1]
        IN  (a # Cut /\ b # Cut /\ b.at <= a.start + a.dur)
                => /\ b.start = a.start + a.dur
                   /\ a.id < b.id

\* Every unit that was started and has not played to its end was stopped.
AllStopped ==
    \A i \in 1..Len(started) :
        started[i] # Cut =>
            \/ started[i].id \in stopped
            \/ clock >= started[i].start + started[i].dur

\* C4: after an interruption is handled every unit of the active set is
\* stopped, the active set is empty and nextStartTime is 0; handling a
\* second interruption right after any handled interruption changes
\* nothing more.
C4_InterruptResetsPlayback ==
    /\ lastOp = "interrupted" =>
          /\ sourcesRef = {}
          /\ nextStartTimeRef = 0
          /\ AllStopped
    /\ \A e1, e2 \in BOOLEAN :
          LET n == Len(arrived) + 1
              once == HandleInterrupted(Refs, n, e1)
          IN  /\ once.sources = {} /\ once.nst = 0
              /\ HandleInterrupted(once, n + 1, e2) = once

\* An interruption was handled while units were in the active set.
C4_Witness ==
    /\ lastOp = "interrupted"
    /\ connectionState = CONNECTED
    /\ stopped # {}
    /\ sourcesRef = {}

\* C5: a message committed by an interruption has role model and the text
\* of the model buffer at that moment followed by the truncation marker,
\* and the model buffer is empty once the interruption is handled.
C5_InterruptionTruncation ==
    /\ \A i \in 1..Len(chatHistory) :
          chatHistory[i].by = "interrupted" =>
              /\ chatHistory[i].role = "model"
              /\ chatHistory[i].src # <<>>
              /\ chatHistory[i].text = Append(chatHistory[i].src, Marker)
    /\ lastOp = "interrupted" => currentOutputRef = <<>>

\* C6: the first unit started after an interruption or stop is scheduled at
\* a reading of the clock taken during its own enqueue, between the
\* arrival of its payload and the source.start call.
C6_RestartFromCurrentTime ==
    \A i \in 1..(Len(started) - 1) :
        started[i] = Cut =>
            /\ started[i + 1].arr <= started[i + 1].start
            /\ started[i + 1].start <= started[i + 1].at

\* C7: when stopEverything has returned, no frame timer runs, no audio
\* processor is connected, the active set and both buffers are empty,
\* nextStartTime is 0, a close was requested on every session that is
\* opening or open, and the state is DISCONNECTED.
C7_StopPostcondition ==
    lastOp \in {"stop", "stop2"} =>
        /\ liveTimers = {}
        /\ liveProcessors = {}
        /\ sourcesRef = {}
        /\ nextStartTimeRef = 0
        /\ currentInputRef = <<>>
        /\ currentOutputRef = <<>>
        /\ \A s \in Sessions : sess[s] \in {"opening", "open"}
                                   => s \in closeReq
        /\ connectionState = DISCONNECTED

\* No connectToGemini call has been made.
NeverStarted ==
    /\ NumSessions = 0
    /\ connectPc = {}
    /\ connectionState = DISCONNECTED

\* C8: stopEverything leaves the state DISCONNECTED, and a call that
\* follows another call directly, or that is made before any session was
\* started, changes nothing.
C8_IdempotentTeardown ==
    /\ [](lastOp \in {"stop", "stop2"} => connectionState = DISCONNECTED)
    /\ [][((lastOp \in StopOps \/ NeverStarted)
              /\ lastOp' \in {"stop", "stop2"})
            => UNCHANGED <<connectionState, errorMsg, mediaStream,
                           chatHistory, nextStartTimeRef,
                           sessionPromiseRef, sourcesRef, currentInputRef,
                           currentOutputRef, frameIntervalRef,
                           scriptProcessorRef, updateQueue, sess, closeReq,
                           liveTimers, liveProcessors, suspended,
                           pendingFrames, stopped, sends>>]_vars

\* stopEverything ran directly after stopEverything, with a session opened
\* before.
C8_Witness ==
    /\ lastOp = "stop2"
    /\ NumSessions > 0
    /\ connectionState = DISCONNECTED

\* C9: no send is made by a continuation that was scheduled before a stop
\* and ran after it.
C9_NoSendAfterStop ==
    \A x \in sends : ~x.late

\* C10: after the transport error callback the state is ERROR, the error
\* message is set and the cleanup of stopEverything is done.
C10_ErrorStateAfterTransportError ==
    (lastOp = "error" /\ mounted) =>
        /\ connectionState = ERROR
        /\ errorMsg = ConnectionErrorMsg
        /\ frameIntervalRef = 0
        /\ scriptProcessorRef = 0
        /\ sourcesRef = {}
        /\ sessionPromiseRef = 0

\* C11: after a failed open (ai.live.connect threw, or the promise it
\* returned rejected) the state is ERROR and an error message is set.
C11_OpenFailureSetsError ==
    (mounted /\ lastOp \in {"threw-connect", "rejected"}) =>
        /\ connectionState = ERROR
        /\ errorMsg # NoError

\* C12: a start without a media stream leaves the state DISCONNECTED with
\* no session, no pending connect and no capture pump, and the step itself
\* changes nothing of the program's state.
C12_StartWithoutMedia ==
    /\ []((lastOp = "start" /\ mediaStream # "ready") =>
            /\ connectionState = DISCONNECTED
            /\ NumSessions = 0
            /\ connectPc = {}
            /\ sessionPromiseRef = 0
            /\ liveTimers = {}
            /\ liveProcessors = {})
    /\ [][(lastOp' = "start" /\ mediaStream # "ready") =>
            UNCHANGED <<connectionState, errorMsg, mediaStream,
                        chatHistory, nextStartTimeRef, sessionPromiseRef,
                        sourcesRef, currentInputRef, currentOutputRef,
                        frameIntervalRef, scriptProcessorRef, updateQueue,
                        connectPc, captured, sess, closeReq, liveTimers,
                        liveProcessors, suspended, pendingFrames, sends,
                        toolSends, currentEmotion>>]_vars

\* Start was pressed after getUserMedia was refused.
C12_Witness ==
    /\ lastOp = "start"
    /\ mediaStream = "denied"
    /\ errorMsg = MediaErrorMsg
    /\ connectionState = DISCONNECTED

\* The edges the session state may take.
Edges ==
    {<<DISCONNECTED, CONNECTING>>, <<CONNECTING, CONNECTED>>,
     <<CONNECTING, ERROR>>, <<CONNECTED, DISCONNECTED>>,
     <<CONNECTED, ERROR>>, <<ERROR, DISCONNECTED>>}

\* A handler that calls setConnectionState twice in one turn takes the
\* state from a over c to b.
TwoCalls(a, c, b) == <<a, c>> \in Edges /\ <<c, b>> \in Edges

\* C13: every change of the session state follows one of the six edges,
\* directly or, in a handler that sets the state twice, over the value it
\* sets first; and ERROR is left only by a stop.  The state set by the
\* cleanup that unmounts the component is never rendered and is left out.
C13_StateEdges ==
    [][(connectionState' # connectionState /\ mounted') =>
          \/ /\ <<connectionState, connectionState'>> \in Edges
             /\ connectionState = ERROR => lastOp' \in {"stop", "stop2"}
          \/ /\ lastOp' = "threw-connect"
             /\ TwoCalls(connectionState, CONNECTING, connectionState')
          \/ /\ lastOp' = "error"
             /\ TwoCalls(connectionState, ERROR, connectionState')]_vars

\* Sessions that are opening or open and on which no close was requested.
LiveSessions ==
    {s \in Sessions : sess[s] \in {"opening", "open"} /\ s \notin closeReq}

\* C14: at most one transport session, one frame timer and one audio
\* processor are live at any moment.
C14_SingleSessionAndPump ==
    /\ Cardinality(LiveSessions) <= 1
    /\ Cardinality(liveTimers) <= 1
    /\ Cardinality(liveProcessors) <= 1

\* C15: no image is sent for a frame-timer tick at which video was toggled
\* off.
C15_VideoGate ==
    \A x \in sends : x.kind = "image" => ~x.off

\* C16: no audio frame is sent from a capture callback that ran while the
\* microphone was muted.
C16_MicGate ==
    \A x \in sends : x.kind = "audio" => ~x.off

\* The requests of a batch whose name is a known tool, in request order.
Known(calls) == SelectSeq(calls, LAMBDA c : c.name = SetEmotion)

\* The responses the batch must get: one success per known request.
Expected(calls) ==
    [i \in 1..Len(Known(calls)) |->
        [id |-> Known(calls)[i].id, name |-> Known(calls)[i].name,
         result |-> "success"]]

\* The sendToolResponse calls made for message n.
SendsFor(n) == SelectSeq(toolSends, LAMBDA x : x.msg = n)

\* C17: every batch with a known request got exactly one send, carrying
\* one success response per known request in request order with the
\* request's id and name; a batch without a known request got none.
C17_ToolRoundTrip ==
    \A n \in 1..Len(arrived) :
        LET calls == arrived[n].tool
        IN  IF Known(calls) = <<>>
            THEN SendsFor(n) = <<>>
            ELSE /\ Len(SendsFor(n)) = 1
                 /\ SendsFor(n)[1].responses = Expected(calls)

\* The message carries an audio part or a transcript delta.
HasEffects(m) == m.audio > 0 \/ m.inText \/ m.outText

\* C18: when a tool handler has raised, the batch still got a response
\* send, the session is still CONNECTED, and the audio part and transcript
\* deltas of the same message are processed or waiting for the decode.
C18_ToolHandlerFailureIsCaught ==
    lastOp = "threw" =>
        LET n == Len(arrived)
        IN  /\ Len(SendsFor(n)) = 1
            /\ connectionState = CONNECTED
            /\ HasEffects(arrived[n]) =>
                  \/ n \in Seen(Refs)
                  \/ \E h \in suspended : h.id = n

\* C19: when the tool calls of a message were dispatched and when their
\* responses were sent, the audio and transcript effects of that message
\* were in place.
C19_EffectsBeforeToolDispatch ==
    \A i \in 1..Len(toolSends) :
        LET x == toolSends[i]
        IN  HasEffects(arrived[x.msg]) =>
                /\ x.msg \in x.atDispatch
                /\ x.msg \in x.atSend

\* The arrivals so far are user deltas and then one turn-complete.
UserOnlyScenario ==
    /\ Len(arrived) >= 2
    /\ \A i \in 1..(Len(arrived) - 1) : arrived[i] = UserDelta
    /\ arrived[Len(arrived)] = TurnCompleteOnly

\* C20: a message committed at turn-complete has as text the whole buffer
\* of its role, which is not empty and holds its fragments in arrival
\* order, and one turn-complete commits at most one message per role;
\* after user deltas and a turn-complete the log is one user message with
\* all the deltas and the user buffer is empty.
C20_TranscriptCommit ==
    /\ \A i \in 1..Len(chatHistory) :
          chatHistory[i].by = "turn-complete" =>
              /\ chatHistory[i].text = chatHistory[i].src
              /\ chatHistory[i].text # <<>>
              /\ Ascending(chatHistory[i].text)
              /\ \A j \in 1..Len(chatHistory) :
                    (/\ j # i
                     /\ chatHistory[j].by = "turn-complete"
                     /\ chatHistory[j].at = chatHistory[i].at)
                        => chatHistory[j].role # chatHistory[i].role
    /\ (UserOnlyScenario /\ Settled) =>
          /\ Len(chatHistory) = 1
          /\ chatHistory[1].role = "user"
          /\ chatHistory[1].text =
                 [k \in 1..(Len(arrived) - 1) |-> k]
          /\ currentInputRef = <<>>

\* C21: a turn-complete leaves both buffers empty, and of the two messages
\* one turn-complete commits the model message is queued and logged before
\* the user message.
C21_ModelBeforeUser ==
    /\ lastOp = "turn-complete" =>
          currentInputRef = <<>> /\ currentOutputRef = <<>>
    /\ \A i, j \in 1..Len(chatHistory) :
          (/\ chatHistory[i].by = "turn-complete"
           /\ chatHistory[j].by = "turn-complete"
           /\ chatHistory[i].at = chatHistory[j].at
           /\ chatHistory[i].role = "model"
           /\ chatHistory[j].role = "user") => i < j
    /\ \A i, j \in 1..Len(updateQueue) :
          (/\ updateQueue[i].by = "turn-complete"
           /\ updateQueue[j].by = "turn-complete"
           /\ updateQueue[i].at = updateQueue[j].at
           /\ updateQueue[i].role = "model"
           /\ updateQueue[j].role = "user") => i < j

\* One turn-complete found both buffers non-empty and its two messages are
\* in the log.
C21_Witness ==
    \E i \in 1..(Len(chatHistory) - 1) :
        /\ chatHistory[i].by = "turn-complete"
        /\ chatHistory[i].role = "model"
        /\ chatHistory[i + 1].by = "turn-complete"
        /\ chatHistory[i + 1].role = "user"
        /\ chatHistory[i + 1].at = chatHistory[i].at

\* The transcript fragments in a message text.
Fragments(text) == {text[i] : i \in 1..Len(text)} \ {Marker}

\* C22: no transcript fragment is in the text of two committed messages.
C22_NoDoubleCommit ==
    \A i, j \in 1..Len(chatHistory) :
        i # j => Fragments(chatHistory[i].text)
                    \cap Fragments(chatHistory[j].text) = {}

\* C23: every step leaves the log it found as a prefix of the log it
\* leaves.
C23_AppendOnlyLog ==
    [][/\ Len(chatHistory') >= Len(chatHistory)
       /\ SubSeq(chatHistory', 1, Len(chatHistory)) = chatHistory]_vars

\* A committed message is still in the log after a stop or a transport
\* error and the start of a second session.
C23_Witness ==
    /\ Len(chatHistory) >= 2
    /\ NumSessions = 2
    /\ connectionState = CONNECTED

\* The message whose arrival is this step.
Arriving == arrived'[Len(arrived')]

\* The args of the last set_emotion call of a batch.
LastEmotion(calls) == Known(calls)[Len(Known(calls))].args

\* The batch has a set_emotion call without args.
Raises(calls) ==
    \E i \in 1..Len(calls) :
        calls[i].name = SetEmotion /\ calls[i].args = NoArgs

\* C24: currentEmotion changes only in the step in which a message with a
\* set_emotion call arrives, and after a batch whose set_emotion calls all
\* carry args it is the emotion of the last of them.
C24_EmotionFrame ==
    /\ [][currentEmotion' # currentEmotion =>
            /\ Len(arrived') = Len(arrived) + 1
            /\ \E i \in 1..Len(Arriving.tool) :
                  /\ Arriving.tool[i].name = SetEmotion
                  /\ Arriving.tool[i].args = currentEmotion']_vars
    /\ [][(/\ Len(arrived') = Len(arrived) + 1
            /\ mounted
            /\ Known(Arriving.tool) # <<>>
            /\ ~Raises(Arriving.tool))
              => currentEmotion' = LastEmotion(Arriving.tool)]_vars

\* A set_emotion call has set the emotion and a later message without a
\* tool call has left it.
C24_Witness ==
    /\ Len(arrived) = 2
    /\ Known(arrived[1].tool) # <<>>
    /\ arrived[2].tool = <<>>
    /\ suspended = {}
    /\ currentEmotion = LastEmotion(arrived[1].tool)
    /\ currentEmotion # NormalEmotion

\* C25: currentEmotion is a member of the enum of the tool declaration.
C25_EmotionInEnum ==
    currentEmotion \in EmotionEnum

\* C26: when a session has just been started currentEmotion is the
\* baseline.
C26_BaselineAtSessionStart ==
    (lastOp = "start" /\ connectionState = CONNECTING) =>
        currentEmotion = NormalEmotion

\* The transcript delta of message n is in a buffer or in a committed
\* text.
Processed(n) ==
    \/ n \in Fragments(currentInputRef) \cup Fragments(currentOutputRef)
    \/ \E i \in 1..Len(updateQueue) : n \in Fragments(updateQueue[i].src)

\* C27: when the handler of a message with a malformed audio part has
\* ended, the session is CONNECTED, the transcript delta of the message is
\* processed, and a turn-complete of the message has emptied the buffers.
C27_MalformedAudioIsIsolated ==
    \A n \in 1..Len(arrived) :
        (arrived[n].malformed /\ \A h \in suspended : h.id # n) =>
            /\ connectionState = CONNECTED
            /\ (arrived[n].inText \/ arrived[n].outText) => Processed(n)
            /\ (arrived[n].turnComplete /\ n = Len(arrived)
                    /\ suspended = {}) =>
                  currentInputRef = <<>> /\ currentOutputRef = <<>>

\* C28: the interrupted field of a message is true when an interruption
\* committed it and false otherwise.
C28_InterruptedFlag ==
    \A i \in 1..Len(chatHistory) :
        chatHistory[i].interrupted =
            IF chatHistory[i].by = "interrupted" THEN "true" ELSE "false"

\* C29: the ids of the messages in the log are pairwise distinct.
C29_DistinctIds ==
    \A i, j \in 1..Len(chatHistory) :
        i # j => <<chatHistory[i].ms, chatHistory[i].suffix>>
                    # <<chatHistory[j].ms, chatHistory[j].suffix>>

\* C30: no unit is in the active set whose payload arrived before an
\* interruption that has been handled.
C30_NoStaleUnit ==
    \A u \in sourcesRef, k \in 1..Len(arrived) :
        (arrived[k].interrupted /\ arrived[k].audio = 0) => k < u

\* C31: no unit is started at a time before the clock reading at which
\* source.start is called, and two units started with no interruption or
\* stop in between do not overlap.
C31_ScheduledAtMax ==
    /\ \A i \in 1..Len(started) :
          started[i] # Cut => started[i].start >= started[i].at
    /\ \A i \in 1..(Len(started) - 1) :
          (started[i] # Cut /\ started[i + 1] # Cut) =>
              started[i + 1].start >= started[i].start + started[i].dur

\* C32: while the component is mounted and the state is DISCONNECTED no
\* frame timer runs, no audio processor is connected and the active set is
\* empty.
C32_DisconnectedIsQuiet ==
    (mounted /\ connectionState = DISCONNECTED) =>
        /\ liveTimers = {}
        /\ liveProcessors = {}
        /\ sourcesRef = {}

\* C33: nextStartTimeRef changes only when an audio payload is handled,
\* which does not lower it, or when an interruption or a stop sets it to 0.
C33_CursorMonotone ==
    [][nextStartTimeRef' # nextStartTimeRef =>
        \/ /\ nextStartTimeRef' = 0
           /\ lastOp' \in {"interrupted"} \cup StopOps
        \/ /\ nextStartTimeRef' > nextStartTimeRef
           /\ \/ /\ Len(arrived') = Len(arrived) + 1
                 /\ Arriving.audio > 0
              \/ \E h \in suspended : h \notin suspended']_vars

\* The cursor was reset by an interruption or a stop and a later payload
\* has advanced it again.
C33_Witness ==
    /\ nextStartTimeRef > 0
    /\ \E i \in 1..(Len(started) - 1) :
          started[i] = Cut /\ started[i + 1] # Cut

\* C34: when the handler of a message with an audio part and a
\* turn-complete, and no user delta of its own, goes on after the decode
\* and finds both buffers non-empty, it queues the user message by the
\* audio-start flush, then the model message by the turn-complete flush,
\* and nothing else; in the log the first is before the second.
C34_AudioStartWins ==
    /\ [][\A h \in suspended :
            (/\ h \notin suspended'
             /\ h.msg.turnComplete
             /\ ~h.msg.inText
             /\ ~h.msg.malformed
             /\ currentInputRef # <<>>
             /\ currentOutputRef # <<>>) =>
                LET k == Len(updateQueue)
                IN  /\ Len(updateQueue') = k + 2
                    /\ updateQueue'[k + 1].role = "user"
                    /\ updateQueue'[k + 1].by = "audio-start"
                    /\ updateQueue'[k + 1].text = currentInputRef
                    /\ updateQueue'[k + 2].role = "model"
                    /\ updateQueue'[k + 2].by = "turn-complete"
                    /\ SubSeq(updateQueue'[k + 2].text, 1,
                              Len(currentOutputRef)) = currentOutputRef
                    /\ currentInputRef' = <<>>
                    /\ currentOutputRef' = <<>>]_vars
    /\ [](\A i, j \in 1..Len(chatHistory) :
            (/\ chatHistory[i].by = "audio-start"
             /\ chatHistory[j].by = "turn-complete"
             /\ chatHistory[i].at = chatHistory[j].at
             /\ ~arrived[chatHistory[i].at].inText) =>
                i < j /\ chatHistory[j].role = "model")

\* One message has committed the user message at audio start and the
\* model message at its turn-complete.
C34_Witness ==
    \E i \in 1..(Len(chatHistory) - 1) :
        /\ chatHistory[i].by = "audio-start"
        /\ chatHistory[i + 1].by = "turn-complete"
        /\ chatHistory[i + 1].role = "model"
        /\ chatHistory[i + 1].at = chatHistory[i].at

\* C35: a step that runs stopEverything leaves the log and the queued
\* updaters as they were and both buffers empty.
C35_StopCommitsNothing ==
    [][lastOp' \in StopOps =>
        /\ chatHistory' = chatHistory
        /\ updateQueue' = updateQueue
        /\ currentInputRef' = <<>>
        /\ currentOutputRef' = <<>>]_vars

\* stopEverything has just run after a transcript delta was buffered, and
\* the log holds an earlier message.
C35_Witness ==
    /\ lastOp \in StopOps
    /\ Len(chatHistory) >= 1
    /\ arrived # <<>>
    /\ arrived[Len(arrived)].inText \/ arrived[Len(arrived)].outText
    /\ \A i \in 1..Len(chatHistory) :
          Len(arrived) \notin Fragments(chatHistory[i].text)
    /\ updateQueue = <<>>
    /\ currentInputRef = <<>>
    /\ currentOutputRef = <<>>

\* C36: a session that is opening or open after stopEverything was called,
\* by the button or by the unmount cleanup, is eventually closed.
C36_OpenedSessionIsClosed ==
    \A s \in Sessions :
        (/\ sess[s] \in {"opening", "open"}
         /\ lastOp \in {"stop", "stop2"} \/ ~mounted)
            ~> (sess[s] \notin {"opening", "open"})
====
